---- MODULE Spec2Model ----
(***************************************************************************)
(* Model of the risk-managed trade simulator of main.py                    *)
(* (simulate_trades_with_risk).  Python floats are modelled as exact       *)
(* rationals [n, d] in lowest terms; close prices are positive.            *)
(* Timestamps are counted in 15-minute bars.                               *)
(***************************************************************************)
EXTENDS Integers, Sequences, FiniteSets, TLC

\* ------------------------------------------------------------------ bounds
MaxTime == 3
MaxRows == 3
\* Bounds of the frames on which every permutation of the rows is run.
PermTime == 2
PermRows == 3

Tickers == <<"A", "B">>
TickerSet == {Tickers[i] : i \in 1..Len(Tickers)}
Timestamps == 1..MaxTime
Prices == {2, 3, 4}
PermPrices == {2, 3}
InitialCashes == {1000}

\* ------------------------------------------------------- rational numbers
Abs(x) == IF x < 0 THEN -x ELSE x

RECURSIVE GCD(_, _)
GCD(a, b) == IF b = 0 THEN a ELSE GCD(b, a % b)

Rat(n, d) == LET g == GCD(Abs(n), d) IN [n |-> n \div g, d |-> d \div g]
FromInt(i) == [n |-> i, d |-> 1]
RAdd(a, b) == Rat(a.n * b.d + b.n * a.d, a.d * b.d)
RSub(a, b) == Rat(a.n * b.d - b.n * a.d, a.d * b.d)
RMul(a, b) == Rat(a.n * b.n, a.d * b.d)
RDiv(a, b) == Rat(a.n * b.d, a.d * b.n)
RNeg(a) == [n |-> -a.n, d |-> a.d]
RLe(a, b) == a.n * b.d <= b.n * a.d
RGe(a, b) == RLe(b, a)
RGt(a, b) == ~RLe(a, b)

Pow10(k) == IF k = 2 THEN 100 ELSE 10000

\* Python's round(x, k): nearest multiple of 10^-k, ties to even.
round(x, k) ==
    LET s == Pow10(k)
        num == x.n * s
        f == num \div x.d
        r == num - f * x.d
        q == IF 2 * r < x.d THEN f
             ELSE IF 2 * r > x.d THEN f + 1
             ELSE IF f % 2 = 0 THEN f ELSE f + 1
    IN Rat(q, s)

\* ------------------------------------------------------------ signals
Sell == -1
Hold == 0
Buy == 1
Signals == {Sell, Hold, Buy}

\* Configurations: risk.stop_loss and risk.take_profit, fractions in (0,1).
Configs == {[stop_loss |-> Rat(1, 4), take_profit |-> Rat(1, 2)]}

VARIABLES df, config, initial_cash, held_positions, trades, pnls, cash, idx, pc, result

vars == <<df, config, initial_cash, held_positions, trades, pnls, cash, idx, pc, result>>

\* --------------------------------------------------------------- frames
Rank(t) == CHOOSE i \in 1..Len(Tickers) : Tickers[i] = t

Keys == Timestamps \X TickerSet

\* Order of the rows of the frames handed to the simulator: ticker by
\* ticker, each ticker in time order (not the order of processing).
GroupBefore(k1, k2) ==
    \/ Rank(k1[2]) < Rank(k2[2])
    \/ k1[2] = k2[2] /\ k1[1] < k2[1]

RECURSIVE Frame(_, _, _)
Frame(K, sg, cl) ==
    IF K = {} THEN <<>>
    ELSE LET k == CHOOSE x \in K : \A y \in K \ {x} : GroupBefore(x, y)
         IN <<[timestamp |-> k[1], ticker |-> k[2],
               signal |-> sg[k], close |-> cl[k]]>>
            \o Frame(K \ {k}, sg, cl)

\* Stable insertion sort of <<key, item>> pairs by ascending integer key.
RECURSIVE InsertPair(_, _)
InsertPair(p, s) ==
    IF s = <<>> THEN <<p>>
    ELSE IF s[Len(s)][1] <= p[1] THEN Append(s, p)
    ELSE Append(InsertPair(p, SubSeq(s, 1, Len(s) - 1)), s[Len(s)])

RECURSIVE SortPairs(_)
SortPairs(s) ==
    IF s = <<>> THEN <<>>
    ELSE InsertPair(s[Len(s)], SortPairs(SubSeq(s, 1, Len(s) - 1)))

Items(ps) == [i \in 1..Len(ps) |-> ps[i][2]]

\* Position of a row in the lexicographic order of (timestamp, ticker).
RowKey(r) == r.timestamp * (Len(Tickers) + 1) + Rank(r.ticker)

\* Mutant: ties on the timestamp are broken by descending ticker.
sort_valuesTickerDescending(s) ==
    Items(SortPairs([i \in 1..Len(s) |->
        <<s[i].timestamp * (Len(Tickers) + 1) - Rank(s[i].ticker), s[i]>>]))

\* Mutant: the frame is sorted in descending order.
sort_valuesDescending(s) ==
    Items(SortPairs([i \in 1..Len(s) |-> <<-RowKey(s[i]), s[i]>>]))

\* Mutant: the frame is processed in the order it was handed over.
sort_valuesSkipped(s) == s

\* df.sort_values(['timestamp', 'ticker']): ascending, lexicographic, stable.
sort_values(s) == Items(SortPairs([i \in 1..Len(s) |-> <<RowKey(s[i]), s[i]>>]))

\* Mutant: the ledger is sorted in descending order.
sort_tradesDescending(s) ==
    Items(SortPairs([i \in 1..Len(s) |-> <<-s[i].entry_datetime, s[i]>>]))

\* pd.DataFrame(trades).sort_values(by='entry_datetime')
sort_trades(s) ==
    Items(SortPairs([i \in 1..Len(s) |-> <<s[i].entry_datetime, s[i]>>]))

\* -------------------------------------------------- one bar of the loop
BarSeconds == 900

total_seconds(bars) == bars * BarSeconds

\* pnl_pct = (current_price - entry_price) / entry_price
PnlPct(current_price, position) ==
    RDiv(RSub(FromInt(current_price), position.entry_price), position.entry_price)

\* Mutant: the stop-loss threshold is exclusive.
StopLossHitStrict(pnl_pct, cfg) == ~RGe(pnl_pct, RNeg(cfg.stop_loss))

\* stop_loss_hit = pnl_pct <= -stop_loss_pct
StopLossHit(pnl_pct, cfg) == RLe(pnl_pct, RNeg(cfg.stop_loss))

\* take_profit_hit = pnl_pct >= take_profit_pct
TakeProfitHit(pnl_pct, cfg) == RGe(pnl_pct, cfg.take_profit)

\* Mutant: a Buy signal closes the position as well.
ExitFiresOnAnySignal(signal, pnl_pct, cfg) ==
    signal # Hold \/ StopLossHit(pnl_pct, cfg) \/ TakeProfitHit(pnl_pct, cfg)

\* if signal == -1 or stop_loss_hit or take_profit_hit
ExitFires(signal, pnl_pct, cfg) ==
    signal = Sell \/ StopLossHit(pnl_pct, cfg) \/ TakeProfitHit(pnl_pct, cfg)

\* Mutant: the stop loss is tested before the signal.
ExitReasonStopFirst(signal, stop_loss_hit) ==
    IF stop_loss_hit THEN "Stop loss raised"
    ELSE IF signal = Sell THEN "Strategy logic"
    ELSE "Stop gain raised"

ExitReason(signal, stop_loss_hit) ==
    IF signal = Sell THEN "Strategy logic"
    ELSE IF stop_loss_hit THEN "Stop loss raised"
    ELSE "Stop gain raised"

\* Mutant: the exit returns only the pnl, not the allocated cash.
CashAfterExitPnlOnly(c, position, pnl) == RAdd(c, pnl)

\* cash += position['cash'] + pnl
CashAfterExit(c, position, pnl) == RAdd(c, RAdd(position.cash, pnl))

\* Mutant: the return is recorded as a fraction, not in percent.
TradeRecordReturnFraction(row, position, pnl_pct, pnl, cfg) ==
    [ticker |-> row.ticker,
     entry_datetime |-> position.entry_datetime,
     exit_datetime |-> row.timestamp,
     entry_price |-> round(position.entry_price, 4),
     exit_price |-> round(FromInt(row.close), 4),
     return_pct |-> round(pnl_pct, 4),
     pnl |-> round(pnl, 2),
     allocated_cash |-> round(position.cash, 2),
     shares |-> round(position.shares, 4),
     holding_ticks |->
         Rat(total_seconds(row.timestamp - position.entry_datetime), 15 * 60),
     exit_reason |-> ExitReason(row.signal, StopLossHit(pnl_pct, cfg))]

TradeRecord(row, position, pnl_pct, pnl, cfg) ==
    [ticker |-> row.ticker,
     entry_datetime |-> position.entry_datetime,
     exit_datetime |-> row.timestamp,
     entry_price |-> round(position.entry_price, 4),
     exit_price |-> round(FromInt(row.close), 4),
     return_pct |-> round(RMul(pnl_pct, FromInt(100)), 4),
     pnl |-> round(pnl, 2),
     allocated_cash |-> round(position.cash, 2),
     shares |-> round(position.shares, 4),
     holding_ticks |->
         Rat(total_seconds(row.timestamp - position.entry_datetime), 15 * 60),
     exit_reason |-> ExitReason(row.signal, StopLossHit(pnl_pct, cfg))]

Without(h, t) == [x \in DOMAIN h \ {t} |-> h[x]]

With(h, t, p) == [x \in DOMAIN h \cup {t} |-> IF x = t THEN p ELSE h[x]]

\* Exit logic of one bar.  st = [held_positions, trades, cash, pnls];
\* pnls logs the unrounded pnl of each exit.
ExitStep(st, row, cfg) ==
    IF row.ticker \notin DOMAIN st.held_positions THEN st
    ELSE LET position == st.held_positions[row.ticker]
             pnl_pct == PnlPct(row.close, position)
             pnl == RMul(pnl_pct, position.cash)
         IN IF ExitFires(row.signal, pnl_pct, cfg)
            THEN [held_positions |-> Without(st.held_positions, row.ticker),
                  trades |-> Append(st.trades,
                                    TradeRecord(row, position, pnl_pct, pnl, cfg)),
                  cash |-> CashAfterExit(st.cash, position, pnl),
                  pnls |-> Append(st.pnls, pnl)]
            ELSE st

\* Mutant: the entry does not check that cash is available.
BuyGuardNoCashCheck(signal, ticker, held, c) ==
    signal = Buy /\ ticker \notin DOMAIN held

\* if signal == 1 and ticker not in held_positions and cash > 0
BuyGuard(signal, ticker, held, c) ==
    signal = Buy /\ ticker \notin DOMAIN held /\ RGt(c, FromInt(0))

\* Mutant: the position size is multiplied by the price.
NewPositionSizeTimesPrice(row, cash_per_position) ==
    [entry_price |-> FromInt(row.close),
     entry_datetime |-> row.timestamp,
     cash |-> cash_per_position,
     shares |-> RMul(cash_per_position, FromInt(row.close))]

NewPosition(row, cash_per_position) ==
    [entry_price |-> FromInt(row.close),
     entry_datetime |-> row.timestamp,
     cash |-> cash_per_position,
     shares |-> RDiv(cash_per_position, FromInt(row.close))]

\* Mutant: the entry allocates the cash without taking it from the pool.
BuyStepKeepsCash(st, row) ==
    IF BuyGuard(row.signal, row.ticker, st.held_positions, st.cash)
    THEN [st EXCEPT !.held_positions =
                        With(st.held_positions, row.ticker,
                             NewPosition(row, st.cash))]
    ELSE st

BuyStep(st, row) ==
    IF BuyGuard(row.signal, row.ticker, st.held_positions, st.cash)
    THEN LET cash_per_position == st.cash
         IN [st EXCEPT !.held_positions =
                           With(st.held_positions, row.ticker,
                                NewPosition(row, cash_per_position)),
                       !.cash = RSub(st.cash, cash_per_position)]
    ELSE st

\* Mutant: the entry check runs before the exit check.
ProcessRowBuyFirst(st, row, cfg) == ExitStep(BuyStep(st, row), row, cfg)

\* One bar: the exit logic, then the buy logic.
ProcessRow(st, row, cfg) == BuyStep(ExitStep(st, row, cfg), row)

\* ------------------------------------------------------------- the run
EmptyMap == [x \in {} |-> 0]

Start(c0) == [held_positions |-> EmptyMap, trades |-> <<>>,
              cash |-> FromInt(c0), pnls |-> <<>>]

\* pd.DataFrame(trades).sort_values(by='entry_datetime'): a frame built from
\* an empty list has no columns, and sorting it by a column raises KeyError.
Returned(st) ==
    IF st.trades = <<>>
    THEN [pc |-> "error", result |-> <<>>, cash |-> st.cash]
    ELSE [pc |-> "done", result |-> sort_trades(st.trades), cash |-> st.cash]

RECURSIVE Loop(_, _, _, _)
Loop(st, rows, i, cfg) ==
    IF i > Len(rows) THEN st ELSE Loop(ProcessRow(st, rows[i], cfg), rows, i + 1, cfg)

\* The whole call on frame f: outcome, ledger and final cash.
Run(f, c0, cfg) == Returned(Loop(Start(c0), sort_values(f), 1, cfg))

\* State at the call: a frame of at most n rows with unique keys among KS
\* and closes among PS.
Called(KS, n, PS) ==
    /\ \E K \in {S \in SUBSET KS : Cardinality(S) <= n} :
          \E sg \in [K -> Signals], cl \in [K -> PS] : df = Frame(K, sg, cl)
    /\ config \in Configs
    /\ initial_cash \in InitialCashes
    /\ held_positions = EmptyMap
    /\ trades = <<>>
    /\ pnls = <<>>
    /\ cash = FromInt(0)
    /\ idx = 0
    /\ pc = "start"
    /\ result = <<>>

Init == Called(Keys, MaxRows, Prices)

InitPerm == Called((1..PermTime) \X TickerSet, PermRows, PermPrices)

\* Lines 47-53: sort the frame, empty portfolio, cash = initial_cash.
Enter ==
    /\ pc = "start"
    /\ df' = sort_values(df)
    /\ held_positions' = Start(initial_cash).held_positions
    /\ trades' = Start(initial_cash).trades
    /\ pnls' = Start(initial_cash).pnls
    /\ cash' = Start(initial_cash).cash
    /\ idx' = 1
    /\ pc' = "loop"
    /\ UNCHANGED <<config, initial_cash, result>>

\* One iteration of the for loop over the sorted rows.
ProcessBar ==
    /\ pc = "loop"
    /\ idx <= Len(df)
    /\ LET st == ProcessRow([held_positions |-> held_positions, trades |-> trades,
                             cash |-> cash, pnls |-> pnls], df[idx], config)
       IN /\ held_positions' = st.held_positions
          /\ trades' = st.trades
          /\ cash' = st.cash
          /\ pnls' = st.pnls
    /\ idx' = idx + 1
    /\ UNCHANGED <<df, config, initial_cash, pc, result>>

\* Line 103: the rows are exhausted, the ledger is sorted and returned.
Return ==
    /\ pc = "loop"
    /\ idx > Len(df)
    /\ LET r == Returned([held_positions |-> held_positions, trades |-> trades,
                          cash |-> cash, pnls |-> pnls])
       IN /\ pc' = r.pc
          /\ result' = r.result
    /\ UNCHANGED <<df, config, initial_cash, held_positions, trades, pnls, cash, idx>>

Next == Enter \/ ProcessBar \/ Return

Spec == Init /\ [][Next]_vars

SpecPerm == InitPerm /\ [][Next]_vars

TypeOK ==
    /\ pc \in {"start", "loop", "done", "error"}
    /\ idx \in 0..(Len(df) + 1)
    /\ DOMAIN held_positions \subseteq TickerSet
    /\ cash.d > 0
    /\ Len(pnls) = Len(trades)

\* ============================================================== claims
RECURSIVE SumSeq(_)
SumSeq(s) ==
    IF s = <<>> THEN FromInt(0)
    ELSE RAdd(SumSeq(SubSeq(s, 1, Len(s) - 1)), s[Len(s)])

RECURSIVE SumHeld(_, _)
SumHeld(h, D) ==
    IF D = {} THEN FromInt(0)
    ELSE LET t == CHOOSE x \in D : TRUE
         IN RAdd(h[t].cash, SumHeld(h, D \ {t}))

Allocated == SumHeld(held_positions, DOMAIN held_positions)
LedgerPnl == [i \in 1..Len(trades) |-> trades[i].pnl]
Running == pc \in {"loop", "done", "error"}
\* A step of the loop that processes the bar df[idx].
BarStep == pc = "loop" /\ idx <= Len(df) /\ idx' = idx + 1
Emitted == Len(trades') = Len(trades) + 1

\* C1 (as written): cash plus the allocated cash of the open positions equals
\* initial_cash plus the sum of the pnl column of the trades closed so far.
C1_ConservationLedger ==
    Running =>
        RAdd(cash, Allocated)
            = RAdd(FromInt(initial_cash), SumSeq(LedgerPnl))

\* C1 (amended): capital is conserved with respect to the unrounded pnl of
\* each exit; against the pnl column of the ledger, which is rounded to two
\* decimals, the identity holds within half a cent per closed trade.
C1_Conservation ==
    Running =>
        /\ RAdd(cash, Allocated) = RAdd(FromInt(initial_cash), SumSeq(pnls))
        /\ LET gap == RSub(RAdd(cash, Allocated),
                           RAdd(FromInt(initial_cash), SumSeq(LedgerPnl)))
           IN 200 * Abs(gap.n) <= Len(trades) * gap.d

C1_Witness ==
    /\ pc = "loop"
    /\ Len(trades) >= 1
    /\ trades[1].pnl # pnls[1]
    /\ held_positions # EmptyMap

\* C2: after every processed bar at most one position is open.
C2_SingleOpenPosition == Cardinality(DOMAIN held_positions) <= 1

\* A Buy bar of a flat ticker was just processed while another ticker is Long.
C2_Witness ==
    /\ pc = "loop"
    /\ idx > 1
    /\ df[idx - 1].signal = Buy
    /\ df[idx - 1].ticker \notin DOMAIN held_positions
    /\ Cardinality(DOMAIN held_positions) = 1

\* ---- helpers of the formulas below
Row == df[idx]
WasHeld == Row.ticker \in DOMAIN held_positions
Zero == FromInt(0)
\* (close - entry) / entry of the position of the bar's ticker, compared by
\* cross-multiplication (entry prices are positive).
StopBreached(close, entry, cfg) ==
    (close * entry.d - entry.n) * cfg.stop_loss.d <= -(cfg.stop_loss.n * entry.n)
ProfitReached(close, entry, cfg) ==
    (close * entry.d - entry.n) * cfg.take_profit.d >= cfg.take_profit.n * entry.n
LastRow == df[idx - 1]
LastTrade == trades[Len(trades)]

\* C3: a bar of a Long ticker closes the position iff its signal is Sell or
\* the return is <= -stop_loss or >= take_profit (inclusive); otherwise the
\* position stays as it is and no Trade is emitted.
C3_ExitCondition ==
    [][(BarStep /\ WasHeld) =>
         LET e == held_positions[Row.ticker].entry_price
             fires == \/ Row.signal = Sell
                      \/ StopBreached(Row.close, e, config)
                      \/ ProfitReached(Row.close, e, config)
         IN /\ Emitted <=> fires
            /\ ~fires => /\ trades' = trades
                         /\ held_positions' = held_positions
                         /\ cash' = cash]_vars

\* A Hold bar closed a position whose return is exactly -stop_loss.
C3_Witness ==
    /\ pc = "loop"
    /\ idx > 1
    /\ LastRow.signal = Hold
    /\ trades # <<>>
    /\ LastTrade.ticker = LastRow.ticker
    /\ LastTrade.exit_datetime = LastRow.timestamp
    /\ RMul(LastTrade.return_pct, Rat(1, 100)) = RNeg(config.stop_loss)

\* The bar that closed trade t (keys are unique).
ExitRow(t) ==
    df[CHOOSE j \in 1..Len(df) :
          df[j].timestamp = t.exit_datetime /\ df[j].ticker = t.ticker]

\* C4: the exit reason is the signal reason whenever the bar's signal is
\* Sell, the stop-loss reason only when the signal is not Sell and the stop
\* loss is hit, the take-profit reason only when neither holds.
C4_ExitReasonPriority ==
    Running =>
        \A i \in 1..Len(trades) :
            LET t == trades[i]
                r == ExitRow(t)
                stop == StopBreached(r.close, t.entry_price, config)
                gain == ProfitReached(r.close, t.entry_price, config)
            IN /\ r.signal = Sell => t.exit_reason = "Strategy logic"
               /\ t.exit_reason = "Stop loss raised" => r.signal # Sell /\ stop
               /\ t.exit_reason = "Stop gain raised" =>
                      r.signal # Sell /\ ~stop /\ gain
               /\ t.exit_reason \in
                      {"Strategy logic", "Stop loss raised", "Stop gain raised"}

\* A Sell bar that also breaches the stop loss closed a trade.
C4_Witness ==
    /\ Running
    /\ \E i \in 1..Len(trades) :
          /\ ExitRow(trades[i]).signal = Sell
          /\ StopBreached(ExitRow(trades[i]).close, trades[i].entry_price, config)
          /\ trades[i].exit_reason = "Strategy logic"

\* C5: after the exit check of a bar, a position is created iff the signal
\* is Buy, the ticker is flat and cash > 0; it takes all the cash at the
\* bar's close and timestamp, and cash is 0 afterwards.
C5_AllInEntry ==
    [][BarStep =>
         LET T == Row.ticker
             flat == ~WasHeld \/ Emitted
             old == held_positions[T]
             midCash == IF WasHeld /\ Emitted
                        THEN RAdd(cash, RMul(old.cash,
                                 Rat(Row.close * old.entry_price.d,
                                     old.entry_price.n)))
                        ELSE cash
             created == T \in DOMAIN held_positions' /\ flat
         IN /\ created <=> (Row.signal = Buy /\ flat /\ RGt(midCash, Zero))
            /\ created =>
                 /\ held_positions'[T].cash = midCash
                 /\ held_positions'[T].entry_price = FromInt(Row.close)
                 /\ held_positions'[T].entry_datetime = Row.timestamp
                 /\ held_positions'[T].shares = Rat(midCash.n, midCash.d * Row.close)
                 /\ cash' = Zero]_vars

\* A Buy bar of a flat ticker just opened a position with all the cash.
C5_Witness ==
    /\ pc = "loop"
    /\ idx > 1
    /\ LastRow.signal = Buy
    /\ LastRow.ticker \in DOMAIN held_positions
    /\ held_positions[LastRow.ticker].entry_datetime = LastRow.timestamp
    /\ held_positions[LastRow.ticker].cash = FromInt(initial_cash)
    /\ held_positions[LastRow.ticker].shares.d # 1
    /\ cash = Zero

\* The other Buy bars at the timestamp of row i.
Peers(i) ==
    {j \in 1..Len(df) \ {i} :
        df[j].timestamp = df[i].timestamp /\ df[j].signal = Buy}

\* C6: of the Buy bars at one timestamp, met with all tickers flat and
\* cash > 0, the bar processed first is that of the lowest ticker and it
\* receives all the cash; a later Buy bar at that timestamp opens nothing;
\* a ticker opens a position only on a Buy bar while no other ticker is Long.
C6_TieBreak ==
    [][BarStep =>
         LET T == Row.ticker
         IN /\ ( /\ Row.signal = Buy
                 /\ held_positions = EmptyMap
                 /\ RGt(cash, Zero)
                 /\ Peers(idx) # {}
                 /\ \A j \in Peers(idx) : j > idx )
               => /\ \A j \in Peers(idx) : Rank(T) < Rank(df[j].ticker)
                  /\ DOMAIN held_positions' = {T}
                  /\ held_positions'[T].cash = cash
                  /\ cash' = Zero
            /\ ( /\ Row.signal = Buy
                 /\ \E j \in Peers(idx) :
                       /\ j < idx
                       /\ df[j].ticker \in DOMAIN held_positions
                       /\ held_positions[df[j].ticker].entry_datetime
                              = Row.timestamp )
               => /\ held_positions' = held_positions
                  /\ trades' = trades
                  /\ cash' = cash
            /\ ( T \in DOMAIN held_positions' /\ (~WasHeld \/ Emitted) )
               => /\ Row.signal = Buy
                  /\ DOMAIN held_positions \subseteq {T}]_vars

\* Two tickers signalled Buy at one timestamp: the first holds all the cash,
\* the second was just processed and holds nothing.
C6_Witness ==
    /\ pc = "loop"
    /\ idx > 2
    /\ df[idx - 2].timestamp = LastRow.timestamp
    /\ df[idx - 2].signal = Buy
    /\ LastRow.signal = Buy
    /\ Rank(df[idx - 2].ticker) < Rank(LastRow.ticker)
    /\ DOMAIN held_positions = {df[idx - 2].ticker}
    /\ held_positions[df[idx - 2].ticker].entry_datetime = LastRow.timestamp
    /\ held_positions[df[idx - 2].ticker].cash = FromInt(initial_cash)
    /\ cash = Zero

Perms ==
    [n \in 0..PermRows |->
        {f \in [1..n -> 1..n] : \A i, j \in 1..n : f[i] = f[j] => i = j}]
Permuted(s, f) == [i \in 1..Len(s) |-> s[f[i]]]
KeyLt(r1, r2) ==
    \/ r1.timestamp < r2.timestamp
    \/ r1.timestamp = r2.timestamp /\ Rank(r1.ticker) < Rank(r2.ticker)
Ended == pc \in {"done", "error"}

\* C7: the bars are processed in ascending (timestamp, ticker) order, and
\* every permutation of the rows of a frame with unique keys gives the same
\* outcome, ledger and final cash as the run did.
C7_OrderInsensitive ==
    /\ Running => \A i, j \in 1..Len(df) : i < j => KeyLt(df[i], df[j])
    /\ Ended =>
         \A f \in Perms[Len(df)] :
             Run(Permuted(df, f), initial_cash, config)
                 = [pc |-> pc, result |-> result, cash |-> cash]

\* A run that returned a ledger after processing the rows in another order
\* than the ticker-by-ticker order they came in.
C7_Witness ==
    /\ pc = "done"
    /\ result # <<>>
    /\ \E i, j \in 1..Len(df) : i < j /\ Rank(df[i].ticker) > Rank(df[j].ticker)

\* C8: the returned ledger holds the appended trades, sorted by
\* entry_datetime ascending.
C8_LedgerSorted ==
    pc = "done" =>
        /\ \A i, j \in 1..Len(result) :
               i < j => result[i].entry_datetime <= result[j].entry_datetime
        /\ Len(result) = Len(trades)
        /\ \A i \in 1..Len(trades) : \E j \in 1..Len(result) : result[j] = trades[i]

C8_Witness ==
    /\ pc = "done"
    /\ Len(result) >= 2
    /\ result[1].entry_datetime < result[2].entry_datetime

\* C9: when the bars are exhausted the call ends normally and returns one
\* record per exit that fired and none for a position still open.
C9_ClosedTradesLedger ==
    Ended =>
        /\ pc = "done"
        /\ Len(result) = Len(pnls)
        /\ \A T \in DOMAIN held_positions : \A j \in 1..Len(result) :
               ~(/\ result[j].ticker = T
                 /\ result[j].entry_datetime = held_positions[T].entry_datetime)

\* C10: a Buy bar of a Long ticker that hits the stop loss or the take
\* profit closes the position and opens a new one on the same bar, at the
\* same close, funded with the cash the exit released.
C10_CloseAndReopen ==
    [][(/\ BarStep
        /\ WasHeld
        /\ Row.signal = Buy
        /\ \/ StopBreached(Row.close, held_positions[Row.ticker].entry_price, config)
           \/ ProfitReached(Row.close, held_positions[Row.ticker].entry_price, config))
       => LET T == Row.ticker
              old == held_positions[T]
              released == RAdd(cash, RMul(old.cash,
                              Rat(Row.close * old.entry_price.d, old.entry_price.n)))
          IN /\ Emitted
             /\ trades'[Len(trades')].ticker = T
             /\ trades'[Len(trades')].entry_datetime = old.entry_datetime
             /\ trades'[Len(trades')].exit_datetime = Row.timestamp
             /\ DOMAIN held_positions' = {T}
             /\ held_positions'[T].entry_price = FromInt(Row.close)
             /\ held_positions'[T].entry_datetime = Row.timestamp
             /\ held_positions'[T].cash = released
             /\ cash' = Zero]_vars

\* The last bar, a Buy, closed a position by stop loss or take profit and
\* reopened it.
C10_Witness ==
    /\ pc = "loop"
    /\ idx > 1
    /\ LastRow.signal = Buy
    /\ trades # <<>>
    /\ LastTrade.ticker = LastRow.ticker
    /\ LastTrade.exit_datetime = LastRow.timestamp
    /\ LastTrade.exit_reason # "Strategy logic"
    /\ LastRow.ticker \in DOMAIN held_positions
    /\ held_positions[LastRow.ticker].entry_datetime = LastRow.timestamp
    /\ held_positions[LastRow.ticker].entry_price = FromInt(LastRow.close)

\* ---- helpers of the formulas below
\* The trade appended by the step, and the position it closed.
NewTrade == trades'[Len(trades')]
Closed == held_positions[Row.ticker]
\* (close - entry) / entry of the closed position.
ExactReturn == Rat(Row.close * Closed.entry_price.d - Closed.entry_price.n,
                   Closed.entry_price.n)
\* y is a multiple of 1/s and lies within half of 1/s of x.
Nearest(y, x, s) ==
    /\ s % y.d = 0
    /\ LET g == RSub(x, y) IN 2 * s * Abs(g.n) <= g.d
\* Cash plus allocated cash, before and after the step.
Wealth == RAdd(cash, Allocated)
WealthAfter == RAdd(cash', SumHeld(held_positions', DOMAIN held_positions'))

\* C11 (as written): the Trade carries the position's entry price, entry time
\* and allocated cash, the bar's close and timestamp, return_pct equal to
\* (exit - entry) / entry * 100 and pnl equal to return_pct / 100 *
\* allocated_cash, and the exit adds allocated_cash + pnl to cash.
C11_TradeRecordExact ==
    [][(BarStep /\ WasHeld /\ Emitted) =>
         /\ NewTrade.entry_price = Closed.entry_price
         /\ NewTrade.entry_datetime = Closed.entry_datetime
         /\ NewTrade.allocated_cash = Closed.cash
         /\ NewTrade.exit_price = FromInt(Row.close)
         /\ NewTrade.exit_datetime = Row.timestamp
         /\ NewTrade.return_pct = RMul(ExactReturn, FromInt(100))
         /\ NewTrade.pnl = RMul(RMul(NewTrade.return_pct, Rat(1, 100)),
                                NewTrade.allocated_cash)
         /\ WealthAfter = RAdd(Wealth, NewTrade.pnl)]_vars

\* C11 (amended): the Trade carries the position's entry price and time and
\* the bar's close and timestamp; return_pct, pnl and allocated_cash are the
\* exact values rounded to 4, 2 and 2 decimals; the exit adds the position's
\* cash plus the unrounded pnl to cash.
C11_TradeRecord ==
    [][(BarStep /\ WasHeld /\ Emitted) =>
         /\ trades' = Append(trades, NewTrade)
         /\ NewTrade.ticker = Row.ticker
         /\ NewTrade.entry_price = Closed.entry_price
         /\ NewTrade.entry_datetime = Closed.entry_datetime
         /\ NewTrade.exit_price = FromInt(Row.close)
         /\ NewTrade.exit_datetime = Row.timestamp
         /\ Nearest(NewTrade.allocated_cash, Closed.cash, 100)
         /\ Nearest(NewTrade.return_pct, RMul(ExactReturn, FromInt(100)), 10000)
         /\ Nearest(NewTrade.pnl, RMul(ExactReturn, Closed.cash), 100)
         /\ WealthAfter = RAdd(Wealth, RMul(ExactReturn, Closed.cash))]_vars

\* A trade whose recorded pnl and return differ from the exact values.
C11_Witness ==
    /\ pc = "loop"
    /\ trades # <<>>
    /\ LastTrade.pnl # pnls[Len(pnls)]
    /\ LastTrade.exit_datetime = LastRow.timestamp
    /\ RMul(LastTrade.return_pct, LastTrade.entry_price)
           # RMul(RSub(LastTrade.exit_price, LastTrade.entry_price), FromInt(100))

\* The step opened a position of the bar's ticker (keys are unique, so no
\* older position carries the bar's timestamp).
Opened ==
    /\ Row.ticker \in DOMAIN held_positions'
    /\ held_positions'[Row.ticker].entry_datetime = Row.timestamp
LedgerPnlAfter == [i \in 1..Len(trades') |-> trades'[i].pnl]

\* C18 (as written): cash is exactly 0 whenever some position is open, and
\* the allocated cash of each new position equals initial_cash plus the sum
\* of the pnl recorded in the trades closed before it.
C18_AllInFromLedger ==
    [][BarStep =>
         /\ (DOMAIN held_positions' # {} => cash' = Zero)
         /\ (Opened =>
                held_positions'[Row.ticker].cash
                    = RAdd(FromInt(initial_cash), SumSeq(LedgerPnlAfter)))]_vars

\* C18 (amended): cash is exactly 0 whenever some position is open, and the
\* allocated cash of each new position equals initial_cash plus the sum of
\* the unrounded pnl of the exits before it, which is within half a cent per
\* closed trade of the sum of the recorded pnl.
C18_AllIn ==
    [][BarStep =>
         /\ (DOMAIN held_positions' # {} => cash' = Zero)
         /\ (cash' # Zero => DOMAIN held_positions' = {})
         /\ (Opened =>
                /\ held_positions'[Row.ticker].cash
                       = RAdd(FromInt(initial_cash), SumSeq(pnls'))
                /\ LET gap == RSub(held_positions'[Row.ticker].cash,
                                   RAdd(FromInt(initial_cash),
                                        SumSeq(LedgerPnlAfter)))
                   IN 200 * Abs(gap.n) <= Len(trades') * gap.d)]_vars

\* A position opened after a trade was closed, with cash at 0.
C18_Witness ==
    /\ pc = "loop"
    /\ idx > 1
    /\ trades # <<>>
    /\ LastRow.ticker \in DOMAIN held_positions
    /\ held_positions[LastRow.ticker].entry_datetime = LastRow.timestamp
    /\ held_positions[LastRow.ticker].cash # FromInt(initial_cash)
    /\ cash = Zero

\* C19: trades never overlap in time: in the order trades are appended,
\* every trade exits strictly later than it entered (holding_ticks > 0) and
\* enters no earlier than the previous trade exited, so the append order is
\* ascending in entry_datetime.
C19_NoOverlap ==
    [][(BarStep /\ Emitted) =>
         /\ NewTrade.exit_datetime > NewTrade.entry_datetime
         /\ NewTrade.holding_ticks.n > 0
         /\ (trades # <<>> =>
                /\ NewTrade.entry_datetime >= LastTrade.exit_datetime
                /\ NewTrade.entry_datetime >= LastTrade.entry_datetime)]_vars

\* Two trades, the second entered on the bar timestamp the first exited at.
C19_Witness ==
    /\ pc = "loop"
    /\ Len(trades) >= 2
    /\ trades[2].entry_datetime = trades[1].exit_datetime
    /\ trades[2].exit_datetime > trades[2].entry_datetime

\* The bar fires neither an exit nor an entry.
Idle ==
    \/ ~WasHeld /\ Row.signal \in {Hold, Sell}
    \/ ~WasHeld /\ Row.signal = Buy /\ RLe(cash, Zero)
    \/ /\ WasHeld
       /\ Row.signal \in {Buy, Hold}
       /\ ~StopBreached(Row.close, Closed.entry_price, config)
       /\ ~ProfitReached(Row.close, Closed.entry_price, config)

\* C20: a bar of ticker T leaves the position of every other ticker as it
\* is; an open position is unchanged until its exit; and a bar that fires
\* neither an exit nor an entry leaves cash, the open positions and the
\* ledger unchanged.
C20_Frame ==
    [][BarStep =>
         /\ \A t \in TickerSet \ {Row.ticker} :
               /\ t \in DOMAIN held_positions' <=> t \in DOMAIN held_positions
               /\ t \in DOMAIN held_positions =>
                      held_positions'[t] = held_positions[t]
         /\ (WasHeld /\ ~Emitted) =>
                /\ Row.ticker \in DOMAIN held_positions'
                /\ held_positions'[Row.ticker] = Closed
         /\ Idle => UNCHANGED <<cash, held_positions, trades>>]_vars

\* A Buy bar of a Long ticker inside the band, after a bar of the other
\* ticker, with the position still as it was opened.
C20_Witness ==
    /\ pc = "loop"
    /\ idx > 3
    /\ trades = <<>>
    /\ LastRow.signal = Buy
    /\ LastRow.ticker \in DOMAIN held_positions
    /\ held_positions[LastRow.ticker].entry_datetime < LastRow.timestamp
    /\ df[idx - 2].ticker # LastRow.ticker
    /\ df[idx - 2].timestamp > held_positions[LastRow.ticker].entry_datetime

\* ================================================== signal evaluation
\* The pipeline of __main__ from evaluate_signals on.  A bar carries close
\* and rsi; rsi is <<>> while undefined (NaN) and <<v>> once defined.
SigRows == 2

Undefined == <<>>
SigTimestamps == 1..SigRows
SigCloses == {2, 4}
SigRsis == {Undefined, <<3>>}
Columns == {"close", "rsi"}

\* Predicates: <<"cmp", op, field, 3>>, <<"not", p>>, <<"and", p, q>>,
\* <<"or", p, q>>, and <<"malformed">> for a text that does not parse.
Ops == {">", "<", ">=", "<=", "==", "!="}
Cmp(op, f) == <<"cmp", op, f, 3>>
Malformed == <<"malformed">>
BuyConditions ==
    {Cmp(op, f) : op \in Ops, f \in Columns}
        \cup {<<"not", Cmp(">", "rsi")>>, <<"not", Cmp("<", "close")>>,
              <<"and", Cmp(">=", "rsi"), Cmp(">", "close")>>,
              <<"or", Cmp("<", "rsi"), Cmp("<", "close")>>,
              Cmp(">", "volume_x"), Malformed}
SellConditions ==
    {Cmp(">", "close"), Cmp("<", "close"), Cmp("!=", "rsi"),
     <<"not", Cmp("<=", "rsi")>>, Cmp("<", "volume_x"), Malformed}
LogicConfigs ==
    {[stop_loss |-> c.stop_loss, take_profit |-> c.take_profit,
      buy |-> b, sell |-> s] :
         c \in Configs, b \in BuyConditions, s \in SellConditions}

\* pd.eval resolves every name when it parses the text: a malformed text
\* or a name that is no column raises before any row is evaluated.
RECURSIVE Parses(_)
Parses(p) ==
    IF p[1] = "cmp" THEN p[3] \in Columns
    ELSE IF p[1] = "not" THEN Parses(p[2])
    ELSE IF p[1] \in {"and", "or"} THEN Parses(p[2]) /\ Parses(p[3])
    ELSE FALSE

\* A comparison with NaN is False, except != which is True.
Compare(op, v, k) ==
    IF v = Undefined THEN op = "!="
    ELSE IF op = ">" THEN v[1] > k
    ELSE IF op = "<" THEN v[1] < k
    ELSE IF op = ">=" THEN v[1] >= k
    ELSE IF op = "<=" THEN v[1] <= k
    ELSE IF op = "==" THEN v[1] = k
    ELSE v[1] # k

Field(row, f) == IF f = "close" THEN <<row.close>> ELSE row.rsi

\* Value of a parsed predicate on one row.
RECURSIVE Holds(_, _)
Holds(p, row) ==
    IF p[1] = "cmp" THEN Compare(p[2], Field(row, p[3]), p[4])
    ELSE IF p[1] = "not" THEN ~Holds(p[2], row)
    ELSE IF p[1] = "and" THEN Holds(p[2], row) /\ Holds(p[3], row)
    ELSE Holds(p[2], row) \/ Holds(p[3], row)

\* Mutant: the buy column is written after the sell column.
SignalOfBuyLast(buy, sell) ==
    IF buy THEN Buy ELSE IF sell THEN Sell ELSE Hold

\* signal = 0; rows with buy get 1; then rows with sell get -1.
SignalOf(buy, sell) ==
    IF sell THEN Sell ELSE IF buy THEN Buy ELSE Hold

compute_signals(row, logic) ==
    LET buy == Holds(logic.buy, row)
        sell == Holds(logic.sell, row)
    IN [timestamp |-> row.timestamp, ticker |-> row.ticker,
        close |-> row.close, rsi |-> row.rsi,
        buy |-> buy, sell |-> sell, signal |-> SignalOf(buy, sell)]

\* compute_signals is applied once per ticker group, so a frame without
\* rows never evaluates the predicates; with rows, the first group raises
\* if a predicate does not parse.
evaluate_signals(f, logic) ==
    IF f = <<>> THEN [pc |-> "start", df |-> f]
    ELSE IF ~Parses(logic.buy) \/ ~Parses(logic.sell)
         THEN [pc |-> "raised", df |-> f]
    ELSE [pc |-> "start",
          df |-> [i \in 1..Len(f) |-> compute_signals(f[i], logic)]]

\* Frames after the warmup filter: at most SigRows bars with unique keys.
Bars(K, cl, rs) ==
    LET f == Frame(K, [k \in K |-> Hold], cl)
    IN [i \in 1..Len(f) |->
           [timestamp |-> f[i].timestamp, ticker |-> f[i].ticker,
            close |-> f[i].close,
            rsi |-> rs[<<f[i].timestamp, f[i].ticker>>]]]

InitMain ==
    /\ \E K \in {S \in SUBSET (SigTimestamps \X TickerSet) :
                     Cardinality(S) <= SigRows} :
          \E cl \in [K -> SigCloses], rs \in [K -> SigRsis] :
              df = Bars(K, cl, rs)
    /\ config \in LogicConfigs
    /\ initial_cash \in InitialCashes
    /\ held_positions = EmptyMap
    /\ trades = <<>>
    /\ pnls = <<>>
    /\ cash = FromInt(0)
    /\ idx = 0
    /\ pc = "eval"
    /\ result = <<>>

\* Line 215: evaluate_signals(df, config['logic']).
EvaluateSignals ==
    /\ pc = "eval"
    /\ LET r == evaluate_signals(df, config)
       IN /\ pc' = r.pc
          /\ df' = r.df
    /\ UNCHANGED <<config, initial_cash, held_positions, trades, pnls, cash,
                   idx, result>>

\* Line 217: sim.to_csv, reached only when the simulator returned.
to_csv ==
    /\ pc = "done"
    /\ pc' = "written"
    /\ UNCHANGED <<df, config, initial_cash, held_positions, trades, pnls,
                   cash, idx, result>>

NextMain == EvaluateSignals \/ Enter \/ ProcessBar \/ Return \/ to_csv

SpecMain == InitMain /\ [][NextMain]_vars

\* ---- helpers of the formulas below
Evaluated == pc \notin {"eval", "raised"}

RECURSIVE References(_, _)
References(p, f) ==
    IF p[1] = "cmp" THEN p[3] = f
    ELSE IF p[1] = "not" THEN References(p[2], f)
    ELSE IF p[1] \in {"and", "or"} THEN References(p[2], f) \/ References(p[3], f)
    ELSE FALSE

\* C12: for every bar, the signal is Sell whenever sell_condition holds
\* (also when buy_condition holds), Buy exactly when buy_condition holds and
\* sell_condition does not, and Hold exactly when neither holds.
C12_SignalTieBreak ==
    Evaluated =>
        \A i \in 1..Len(df) :
            LET b == Holds(config.buy, df[i])
                s == Holds(config.sell, df[i])
            IN /\ s => df[i].signal = Sell
               /\ df[i].signal = Sell => s
               /\ df[i].signal = Buy <=> (b /\ ~s)
               /\ df[i].signal = Hold <=> (~b /\ ~s)

\* A bar on which both conditions hold, with signal Sell.
C12_Witness ==
    /\ Evaluated
    /\ \E i \in 1..Len(df) :
          /\ Holds(config.buy, df[i])
          /\ Holds(config.sell, df[i])
          /\ df[i].signal = Sell

\* C15: if the buy or the sell predicate is malformed or names an unknown
\* field, the pipeline fails during signal evaluation: the simulator is
\* never entered, no cash, position or ledger state is created and nothing
\* is written.
C15_FailFast ==
    (~Parses(config.buy) \/ ~Parses(config.sell)) =>
        /\ pc \in {"eval", "raised"}
        /\ idx = 0
        /\ cash = Zero

\* C17: on a bar whose rsi is undefined, a buy or sell predicate that
\* references rsi does not fire, so it never makes the bar Buy or Sell.
C17_UndefinedHolds ==
    Evaluated =>
        \A i \in 1..Len(df) :
            df[i].rsi = Undefined =>
                /\ References(config.buy, "rsi") => ~df[i].buy
                /\ References(config.sell, "rsi") => ~df[i].sell

\* ================================================ indicator computation
\* compute_indicators on a frame of bars with the default index labels
\* 0..n-1, in any row order.  Of rsi, macd and the Bollinger bands only the
\* definedness is modelled.  The frame has at least one bar.
IndRows == 3

RsiWindow == 14
MacdSlow == 26
BollingerWindow == 20

IndTimestamps == 1..IndRows
IndCloses == {1, 2}
IndConfigs == {[short_window |-> 1, long_window |-> 2],
               [short_window |-> 2, long_window |-> 3]}
Defined == <<"value">>

\* group.sort_index(): the rows of the group by ascending index label.
sort_index(group) ==
    Items(SortPairs([i \in 1..Len(group) |-> <<group[i].index, group[i]>>]))

\* Arithmetic mean of a sequence of closes.
Mean(closes) ==
    RDiv(SumSeq([i \in 1..Len(closes) |-> FromInt(closes[i])]),
         FromInt(Len(closes)))

\* group['close'].rolling(w).mean() at the p-th row (from 1) of the group.
rolling_mean(closes, w, p) ==
    IF p < w THEN Undefined ELSE <<Mean(SubSeq(closes, p - w + 1, p))>>

\* group[cols_to_round].round(4)
RoundCol(v) == IF v = Undefined THEN v ELSE <<round(v[1], 4)>>

\* An indicator of the ta library with window w: undefined on the first
\* w - 1 rows of the group.
Warmup(w, p) == IF p < w THEN Undefined ELSE Defined

compute_group_indicators(group, cfg) ==
    LET g == sort_index(group)
        closes == [i \in 1..Len(g) |-> g[i].close]
    IN [p \in 1..Len(g) |->
           [index |-> g[p].index, ticker |-> g[p].ticker,
            timestamp |-> g[p].timestamp, close |-> g[p].close,
            short_ma |-> RoundCol(rolling_mean(closes, cfg.short_window, p)),
            long_ma |-> RoundCol(rolling_mean(closes, cfg.long_window, p)),
            rsi |-> Warmup(RsiWindow, p),
            macd |-> Warmup(MacdSlow, p),
            bb_middle |-> Warmup(BollingerWindow, p)]]

\* df.groupby('ticker').apply(compute_group_indicators): every row gets the
\* values computed in the group of its ticker; the rows keep their order.
groupby_apply(f, cfg) ==
    [i \in 1..Len(f) |->
        LET g == compute_group_indicators(
                     SelectSeq(f, LAMBDA r : r.ticker = f[i].ticker), cfg)
        IN g[CHOOSE p \in 1..Len(g) : g[p].index = f[i].index]]

\* Mutant: rows lacking any indicator are dropped.
dropnaAny(s) ==
    SelectSeq(s, LAMBDA r : /\ r.short_ma # Undefined
                            /\ r.long_ma # Undefined
                            /\ r.rsi # Undefined)

\* df.dropna(subset=['short_ma', 'long_ma'])
dropna(s) ==
    SelectSeq(s, LAMBDA r : r.short_ma # Undefined /\ r.long_ma # Undefined)

InitIndicators ==
    /\ \E n \in 1..IndRows :
          \E ks \in [1..n -> IndTimestamps \X TickerSet], cl \in [1..n -> IndCloses] :
              /\ \A i, j \in 1..n : ks[i] = ks[j] => i = j
              /\ df = [i \in 1..n |->
                          [index |-> i - 1, ticker |-> ks[i][2],
                           timestamp |-> ks[i][1], close |-> cl[i]]]
    /\ config \in IndConfigs
    /\ initial_cash \in InitialCashes
    /\ held_positions = EmptyMap
    /\ trades = <<>>
    /\ pnls = <<>>
    /\ cash = FromInt(0)
    /\ idx = 0
    /\ pc = "indicators"
    /\ result = <<>>

\* Line 132: the per-ticker computation.
ApplyGroups ==
    /\ pc = "indicators"
    /\ result' = groupby_apply(df, config)
    /\ pc' = "applied"
    /\ UNCHANGED <<df, config, initial_cash, held_positions, trades, pnls,
                   cash, idx>>

\* Lines 133-134: the warmup filter; the frame is returned.
DropNa ==
    /\ pc = "applied"
    /\ result' = dropna(result)
    /\ pc' = "computed"
    /\ UNCHANGED <<df, config, initial_cash, held_positions, trades, pnls,
                   cash, idx>>

NextIndicators == ApplyGroups \/ DropNa

SpecIndicators == InitIndicators /\ [][NextIndicators]_vars

\* ---- helpers of the formulas below
SameTicker(i, j) == df[i].ticker = df[j].ticker
\* Position (from 1) of row i in its ticker's series, in index order.
SeriesPos(i) == Cardinality({j \in 1..i : SameTicker(i, j)})
\* The rows of the trailing window of w bars that ends at row i.
Trail(i, w) ==
    {j \in 1..i : SameTicker(i, j) /\ SeriesPos(j) > SeriesPos(i) - w}
\* The same, with the ticker's bars arranged by ascending timestamp.
TimePos(i) ==
    Cardinality({j \in 1..Len(df) :
                    SameTicker(i, j) /\ df[j].timestamp <= df[i].timestamp})
TimeTrail(i, w) ==
    {j \in 1..Len(df) : /\ SameTicker(i, j)
                        /\ df[j].timestamp <= df[i].timestamp
                        /\ TimePos(j) > TimePos(i) - w}
RECURSIVE SumClose(_)
SumClose(S) ==
    IF S = {} THEN 0
    ELSE LET j == CHOOSE x \in S : TRUE IN df[j].close + SumClose(S \ {j})
Retained(i) == \E k \in 1..Len(result) : result[k].index = df[i].index

\* C13 (as written): short_ma and long_ma are undefined at positions 0..w-2
\* of the ticker's series and equal the arithmetic mean of the trailing w
\* closes afterwards; the output holds exactly the bars with both defined.
C13_SmaExact ==
    /\ pc = "applied" =>
          \A i \in 1..Len(df) :
              /\ result[i].short_ma =
                     IF SeriesPos(i) < config.short_window THEN Undefined
                     ELSE <<Rat(SumClose(Trail(i, config.short_window)),
                                config.short_window)>>
              /\ result[i].long_ma =
                     IF SeriesPos(i) < config.long_window THEN Undefined
                     ELSE <<Rat(SumClose(Trail(i, config.long_window)),
                                config.long_window)>>
    /\ pc = "computed" =>
          \A i \in 1..Len(df) :
              Retained(i) <=> /\ SeriesPos(i) >= config.short_window
                              /\ SeriesPos(i) >= config.long_window

\* v is undefined on the first w - 1 positions and the mean of the trailing
\* w closes rounded to 4 decimals afterwards.
SmaAt(v, i, w) ==
    IF SeriesPos(i) < w THEN v = Undefined
    ELSE /\ v # Undefined
         /\ Nearest(v[1], Rat(SumClose(Trail(i, w)), w), 10000)

\* C13 (amended): short_ma and long_ma are undefined at positions 0..w-2 of
\* the ticker's series and equal the arithmetic mean of the trailing w
\* closes rounded to 4 decimals afterwards; the output holds exactly the
\* bars with both defined, also those whose rsi, macd or Bollinger values
\* are undefined.
C13_Sma ==
    /\ pc = "applied" =>
          /\ Len(result) = Len(df)
          /\ \A i \in 1..Len(df) :
                /\ result[i].index = df[i].index
                /\ SmaAt(result[i].short_ma, i, config.short_window)
                /\ SmaAt(result[i].long_ma, i, config.long_window)
    /\ pc = "computed" =>
          /\ \A i \in 1..Len(df) :
                Retained(i) <=> /\ SeriesPos(i) >= config.short_window
                                /\ SeriesPos(i) >= config.long_window
          /\ \A k \in 1..Len(result) :
                /\ result[k].short_ma # Undefined
                /\ result[k].long_ma # Undefined
                /\ \E i \in 1..Len(df) :
                      /\ result[k].index = df[i].index
                      /\ result[k].close = df[i].close
                      /\ SmaAt(result[k].short_ma, i, config.short_window)
                      /\ SmaAt(result[k].long_ma, i, config.long_window)

\* A retained bar without rsi, macd and Bollinger values whose long_ma is a
\* rounded mean, after earlier bars of its ticker were dropped.
C13_Witness ==
    /\ pc = "computed"
    /\ Len(result) < Len(df)
    /\ \E k \in 1..Len(result) :
          /\ result[k].rsi = Undefined
          /\ result[k].macd = Undefined
          /\ result[k].bb_middle = Undefined
          /\ result[k].long_ma[1].d = 10000

\* C14: for any row order, the moving averages attached to a bar are those
\* of its ticker's bars arranged in ascending timestamp order.
C14_TimeOrdered ==
    pc = "applied" =>
        \A i \in 1..Len(df) :
            /\ result[i].short_ma =
                   IF TimePos(i) < config.short_window THEN Undefined
                   ELSE <<round(Rat(SumClose(TimeTrail(i, config.short_window)),
                                    config.short_window), 4)>>
            /\ result[i].long_ma =
                   IF TimePos(i) < config.long_window THEN Undefined
                   ELSE <<round(Rat(SumClose(TimeTrail(i, config.long_window)),
                                    config.long_window), 4)>>

\* ================================================ configuration loader
\* load_strategy_config on a JSON document, given as the set of the paths
\* it contains ("section.key" for a key of a section).
RequiredFields ==
    {"strategy_name", "tickers", "parameters.short_window",
     "parameters.long_window", "parameters.start_date",
     "parameters.end_date", "logic.buy_condition", "logic.sell_condition"}
RequiredSections == {"parameters", "logic"}
OptionalFields ==
    {"capital", "rebalance", "position_sizing.method",
     "risk_management.stop_loss_pct", "risk_management.take_profit_pct"}
OptionalSections == {"position_sizing", "risk_management"}

\* The section a path lies in ("" at the top level).
SectionOf(path) ==
    IF path \in {"parameters.short_window", "parameters.long_window",
                 "parameters.start_date", "parameters.end_date"}
    THEN "parameters"
    ELSE IF path \in {"logic.buy_condition", "logic.sell_condition"}
    THEN "logic"
    ELSE IF path = "position_sizing.method" THEN "position_sizing"
    ELSE IF path \in {"risk_management.stop_loss_pct",
                      "risk_management.take_profit_pct"}
    THEN "risk_management"
    ELSE ""

\* A key is inside a section only if the section is there.
WellFormed(doc) ==
    \A path \in doc : SectionOf(path) # "" => SectionOf(path) \in doc

\* The values the document gives to the optional fields it contains.
Given ==
    [capital |-> 1000, rebalance |-> "weekly", method |-> "fixed_fraction",
     stop_loss_pct |-> Rat(1, 4), take_profit_pct |-> Rat(1, 2)]

\* The subscripts config[...] of lines 140-152, in the order they are
\* evaluated; each raises KeyError if the key is missing.
Lookups ==
    <<"strategy_name", "tickers",
      "parameters", "parameters.short_window",
      "parameters", "parameters.long_window",
      "parameters", "parameters.start_date",
      "parameters", "parameters.end_date",
      "logic", "logic.buy_condition",
      "logic", "logic.sell_condition",
      "position_sizing", "risk_management", "risk_management">>

MissingKeys(doc) == {i \in 1..Len(Lookups) : Lookups[i] \notin doc}

\* dict.get(key, default)
Get(doc, path, value, default) == IF path \in doc THEN value ELSE default

load_strategy_config(doc) ==
    IF MissingKeys(doc) # {}
    THEN [pc |-> "KeyError",
          result |-> Lookups[CHOOSE i \in MissingKeys(doc) :
                                \A j \in MissingKeys(doc) : i <= j]]
    ELSE [pc |-> "loaded",
          result |->
              [capital |-> Get(doc, "capital", Given.capital, 100000),
               rebalance |-> Get(doc, "rebalance", Given.rebalance, "daily"),
               sizing |-> Get(doc, "position_sizing.method", Given.method,
                              "equal_weight"),
               risk |-> [stop_loss |->
                             Get(doc, "risk_management.stop_loss_pct",
                                 Given.stop_loss_pct, Rat(5, 100)),
                         take_profit |->
                             Get(doc, "risk_management.take_profit_pct",
                                 Given.take_profit_pct, Rat(15, 100))]]]

\* Documents in which at most one required field is missing and any of the
\* optional fields and sections are.
InitConfig ==
    /\ \E missing \in {{}} \cup {{path} : path \in RequiredFields},
          optional \in SUBSET (OptionalFields \cup OptionalSections) :
          /\ config = ((RequiredFields \cup RequiredSections) \ missing)
                          \cup optional
          /\ WellFormed(config)
    /\ df = <<>>
    /\ initial_cash \in InitialCashes
    /\ held_positions = EmptyMap
    /\ trades = <<>>
    /\ pnls = <<>>
    /\ cash = FromInt(0)
    /\ idx = 0
    /\ pc = "config"
    /\ result = <<>>

\* Line 213: config = load_strategy_config(...).
LoadConfig ==
    /\ pc = "config"
    /\ LET r == load_strategy_config(config)
       IN /\ pc' = r.pc
          /\ result' = r.result
    /\ UNCHANGED <<df, config, initial_cash, held_positions, trades, pnls,
                   cash, idx>>

NextConfig == LoadConfig

SpecConfig == InitConfig /\ [][NextConfig]_vars

\* C16: load_strategy_config succeeds on every document that contains the
\* required fields and substitutes the default for each optional field that
\* is absent, whatever subset of the optional fields or of their enclosing
\* sections is missing.
C16_Defaults ==
    (pc # "config" /\ RequiredFields \subseteq config) =>
        /\ pc = "loaded"
        /\ result.capital = Get(config, "capital", Given.capital, 100000)
        /\ result.rebalance = Get(config, "rebalance", Given.rebalance, "daily")
        /\ result.sizing = Get(config, "position_sizing.method", Given.method,
                               "equal_weight")
        /\ result.risk.stop_loss =
               Get(config, "risk_management.stop_loss_pct",
                   Given.stop_loss_pct, Rat(1, 20))
        /\ result.risk.take_profit =
               Get(config, "risk_management.take_profit_pct",
                   Given.take_profit_pct, Rat(3, 20))

====
